---------------------------- MODULE Spec2Model ----------------------------
(***************************************************************************)
(* A model of codesave (src/codesave/base.py, src/codesave/routines.py):   *)
(* the import rewriter, the namespacer, the archive builder and the two    *)
(* archive loaders.                                                        *)
(*                                                                         *)
(* Strings are modelled as sequences of tokens.  A token is a character    *)
(* or one of the few substrings the code searches for ("import ", "from ", *)
(* ".py", "__init__", ...); str.replace, `in`, endswith and split are      *)
(* modelled on those sequences.  A path is the list its split("/") gives:  *)
(* a sequence of segments, each a token sequence.                          *)
(***************************************************************************)
EXTENDS Integers, Sequences, FiniteSets, TLC

VARIABLES
    rw_pc,        \* import rewriter: "ready" before the call, "done" after
    rw_text,      \* original_text handed to _fix_all_imports
    rw_libs,      \* the set of library names
    rw_prefix,    \* the prefix of new_pattern (f"{prefix}.{library}")
    rw_order,     \* the order in which `libraries` was iterated
    rw_out,       \* the text _fix_all_imports returned
    ns_pc,        \* namespacer: "ready" before create_unique_zip, "done" after
    ns_in,        \* the archive at input_zipname: a sequence of entries
    ns_args,      \* prefix, library_names, save_non_code, add_init
    ns_now,       \* the clock when create_unique_zip runs, in ticks
    ns_prefix,    \* the prefix create_unique_zip resolved
    ns_out,       \* the file at output_zipname: exists, entries
    ns_err,       \* create_unique_zip raised
    b_pc,         \* archive builder: "ready" before create_zip, "done" after
    b_inputs,     \* files_and_folders
    b_args,       \* library_names, ignore
    disk,         \* the archive files: path -> exists, entries
    sys_path,     \* sys.path
    sys_modules,  \* sys.modules: the modules imported so far
    cache_stale,  \* sys.path changed since importlib.invalidate_caches()
    ran_already,  \* Codebase._ran_already
    clock,        \* the clock, in ticks
    handles,      \* the loader objects
    last,         \* the last loader operation and how it ended
    cp_pc,        \* checkpoint: "ready" before the call, "done" after
    cp_args,      \* main_folder, extra_libraries, extra_pythonpath, filters
    cp_err,       \* checkpoint raised
    lc_pc,        \* change_launcher: "ready" before the call, "done" after
    lc_args,      \* external_path, internal_path, module_name
    lc_before,    \* the archive at zip_file before the call
    lc_err        \* change_launcher raised

rw_vars == <<rw_pc, rw_text, rw_libs, rw_prefix, rw_order, rw_out>>
ns_vars == <<ns_pc, ns_in, ns_args, ns_now, ns_prefix, ns_out, ns_err>>
b_vars == <<b_pc, b_inputs, b_args>>
ld_vars == <<disk, sys_path, sys_modules, cache_stale, ran_already, clock,
             handles, last>>

cp_vars == <<cp_pc, cp_args, cp_err>>
lc_vars == <<lc_pc, lc_args, lc_before, lc_err>>

vars == <<rw_vars, ns_vars, b_vars, ld_vars, cp_vars, lc_vars>>

-----------------------------------------------------------------------------
(* Tokens of source text *)

KW_IMPORT == "import "
KW_FROM == "from "
SP == " "
DOT == "."
NL == "\n"
COMMA == ","

Letters == {"a", "b"}

-----------------------------------------------------------------------------
(* Generic helpers on sequences and sets *)

Range(s) == {s[i] : i \in 1..Len(s)}

SeqsUpTo(S, n) == UNION {[1..k -> S] : k \in 0..n}

\* the orders in which a set can be iterated
Orders(S) == {o \in [1..Cardinality(S) -> S] : Range(o) = S}

\* s has `pat` at position i
MatchAt(s, pat, i) ==
    /\ i >= 1
    /\ i + Len(pat) - 1 <= Len(s)
    /\ SubSeq(s, i, i + Len(pat) - 1) = pat

-----------------------------------------------------------------------------
(* str.replace(old, new): every non-overlapping occurrence, left to right *)

RECURSIVE ReplaceFrom(_, _, _, _)
ReplaceFrom(s, old, new, i) ==
    IF i > Len(s) THEN <<>>
    ELSE IF MatchAt(s, old, i)
         THEN new \o ReplaceFrom(s, old, new, i + Len(old))
         ELSE <<s[i]>> \o ReplaceFrom(s, old, new, i + 1)

StrReplace(s, old, new) == ReplaceFrom(s, old, new, 1)

-----------------------------------------------------------------------------
(* _fix_all_imports *)

\* new_pattern of create_unique_zip: f"{prefix}.{library}"
NewPattern(prefix, library) == prefix \o <<DOT>> \o library

\* mutant: the patterns without their trailing delimiter
ChangesFor_NoDelimiter(library, prefix) ==
    LET op == library
        np == NewPattern(prefix, library)
    IN  << <<(<<KW_IMPORT>> \o op), (<<KW_IMPORT>> \o np)>>,
           <<(<<KW_FROM>> \o op),   (<<KW_FROM>> \o np)>> >>

\* mutant: the "from" pattern forgotten
ChangesFor_NoFrom(library, prefix) ==
    LET op == library
        np == NewPattern(prefix, library)
    IN  << <<(<<KW_IMPORT>> \o op \o <<SP>>),  (<<KW_IMPORT>> \o np \o <<SP>>)>>,
           <<(<<KW_IMPORT>> \o op \o <<DOT>>), (<<KW_IMPORT>> \o np \o <<DOT>>)>> >>

\* the three (old, new) pairs appended for one library
ChangesFor(library, prefix) ==
    LET op == library
        np == NewPattern(prefix, library)
    IN  << <<(<<KW_IMPORT>> \o op \o <<SP>>),  (<<KW_IMPORT>> \o np \o <<SP>>)>>,
           <<(<<KW_IMPORT>> \o op \o <<DOT>>), (<<KW_IMPORT>> \o np \o <<DOT>>)>>,
           <<(<<KW_FROM>> \o op \o <<DOT>>),   (<<KW_FROM>> \o np \o <<DOT>>)>> >>

RECURSIVE AllChanges(_, _)
AllChanges(libraries, prefix) ==
    IF libraries = <<>> THEN <<>>
    ELSE ChangesFor(Head(libraries), prefix) \o AllChanges(Tail(libraries), prefix)

RECURSIVE ApplyChanges(_, _)
ApplyChanges(s, changes) ==
    IF changes = <<>> THEN s
    ELSE ApplyChanges(StrReplace(s, Head(changes)[1], Head(changes)[2]),
                      Tail(changes))

\* mutant: each replace applied to original_text instead of new_s, so that
\* only the last change survives
FixAllImports_OnlyLast(original_text, libraries, prefix) ==
    LET changes == AllChanges(libraries, prefix)
    IN  IF changes = <<>> THEN original_text
        ELSE StrReplace(original_text, changes[Len(changes)][1],
                        changes[Len(changes)][2])

FixAllImports(original_text, libraries, prefix) ==
    ApplyChanges(original_text, AllChanges(libraries, prefix))

-----------------------------------------------------------------------------
(* File names and archive entries *)

PY == ".py"
INIT == "__init__"
MAIN == "__main__"

InitPy == <<INIT, PY>>                        \* "__init__.py"
MainPy == <<MAIN, PY>>                        \* "__main__.py"
ManifestName == <<"library_names", ".json">>  \* "library_names.json"
PackagesName == <<"packages", ".txt">>        \* "packages.txt"
ManifestPath == <<ManifestName>>

\* ".py" in f
HasPy(f) == \E i \in 1..Len(f) : PY \in Range(f[i])

\* f.endswith(".py")
EndsWithPy(f) ==
    /\ Len(f) >= 1
    /\ Len(f[Len(f)]) >= 1
    /\ f[Len(f)][Len(f[Len(f)])] = PY

\* segment.replace(".py", "")
RemovePy(seg) == SelectSeq(seg, LAMBDA t : t # PY)

\* the content of an entry: utf-8 text (its tokens), the JSON manifest (its
\* list of library names), or bytes that do not decode as utf-8
Text(t) == [kind |-> "text", text |-> t, libs |-> <<>>]
Json(l) == [kind |-> "json", text |-> <<>>, libs |-> l]
Binary == [kind |-> "binary", text |-> <<>>, libs |-> <<>>]

Entry(name, data) == [name |-> name, data |-> data]

\* a file of the disk: missing, or an archive with its entries in order
Absent == [exists |-> FALSE, entries |-> <<>>]
Present(zip) == [exists |-> TRUE, entries |-> zip]

NameList(zip) == [i \in 1..Len(zip) |-> zip[i].name]

\* zip.read(name)
ZipRead(zip, name) == (CHOOSE e \in Range(zip) : e.name = name).data

\* an optional list argument: None, or the list given
None == [given |-> FALSE, names |-> <<>>]
Some(l) == [given |-> TRUE, names |-> l]

-----------------------------------------------------------------------------
(* _get_library_names *)

\* set([f.split("/")[index].replace(".py", "") for f in all_fnames if ".py" in f]);
\* a set stands for the list all_fnames
GetLibraryNames(all_fnames, index) ==
    {RemovePy(f[index + 1]) : f \in {g \in all_fnames : HasPy(g)}}

-----------------------------------------------------------------------------
(* create_unique_zip *)

TicksPerSecond == 2

\* datetime.now().strftime("%Y%m%d%H%M%S"): the clock cut to whole seconds
Strftime(now) == ToString(now \div TicksPerSecond)

\* prefix or "codebase_{:}".format(...)
ResolvePrefix(prefix, now) ==
    IF prefix # <<>> THEN prefix ELSE <<"codebase_", Strftime(now)>>

\* the library names of lines 141-147, as the set the list holds
NsLibraryNames(zip, library_names) ==
    IF library_names.given THEN Range(library_names.names)
    ELSE IF ManifestPath \in Range(NameList(zip))
         THEN Range(ZipRead(zip, ManifestPath).libs)
         ELSE GetLibraryNames(Range(NameList(zip)), 0)

\* zip.read(old_filename).decode("utf-8") raises
DecodeRaises(data) == data.kind = "binary"

\* _fix_all_imports on the decoded content; the manifest holds no statement
RewriteData(data, libraries, prefix) ==
    IF data.kind = "text"
    THEN Text(FixAllImports(data.text, libraries, prefix))
    ELSE data

\* mutant: the entry written under its old name
NsNewName_Unprefixed(prefix, filename) == filename

\* info.filename = prefix + "/" + info.filename
NsNewName(prefix, filename) == <<prefix>> \o filename

\* the loop of lines 150-164 over zip.infolist(): what was written to
\* new_zip, and whether a decode raised (nothing is written after it)
RECURSIVE NsCopy(_, _, _, _)
NsCopy(infos, prefix, libraries, save_non_code) ==
    IF infos = <<>> THEN [out |-> <<>>, err |-> FALSE]
    ELSE LET info == Head(infos)
             filename == NsNewName(prefix, info.name)
             rest == NsCopy(Tail(infos), prefix, libraries, save_non_code)
         IN  IF ~EndsWithPy(filename) /\ save_non_code
             THEN [out |-> <<Entry(filename, info.data)>> \o rest.out,
                   err |-> rest.err]
             ELSE IF DecodeRaises(info.data)
             THEN [out |-> <<>>, err |-> TRUE]
             ELSE [out |-> <<Entry(filename,
                                   RewriteData(info.data, libraries, prefix))>>
                            \o rest.out,
                   err |-> rest.err]

\* mutant: range(2, len(all_parts) - 1), the prefix directory skipped
NecessaryInits_SkipFirst(newzip_files) ==
    UNION {{SubSeq(file, 1, i) \o <<InitPy>> : i \in 2..(Len(file) - 2)} :
              file \in {g \in Range(newzip_files) : EndsWithPy(g)}}

\* lines 168-177: "/".join(all_parts[:i] + ["__init__.py"]) for i in
\* range(1, len(all_parts) - 1), for every file ending in ".py"
NecessaryInits(newzip_files) ==
    UNION {{SubSeq(file, 1, i) \o <<InitPy>> : i \in 1..(Len(file) - 2)} :
              file \in {g \in Range(newzip_files) : EndsWithPy(g)}}

\* every run create_unique_zip can make of one call: the list of library
\* names and the set necessary_inits are iterated in any order
CreateUniqueZipRuns(zip, prefixArg, library_names, save_non_code, add_init, now) ==
    LET prefix == ResolvePrefix(prefixArg, now)
        libs == NsLibraryNames(zip, library_names)
        libOrders == IF library_names.given THEN {library_names.names}
                     ELSE IF ManifestPath \in Range(NameList(zip))
                          THEN {ZipRead(zip, ManifestPath).libs}
                          ELSE Orders(libs)
        Run(libraries, initOrder) ==
            LET copied == NsCopy(zip, prefix, libraries, save_non_code)
            IN  [prefix |-> prefix,
                 err |-> copied.err,
                 out |-> IF copied.err THEN copied.out
                         ELSE copied.out \o
                              [i \in 1..Len(initOrder) |->
                                  Entry(initOrder[i], Text(<<>>))]]
        Inits(libraries) ==
            LET copied == NsCopy(zip, prefix, libraries, save_non_code)
            IN  IF copied.err \/ ~add_init THEN {}
                ELSE NecessaryInits(NameList(copied.out))
                         \ Range(NameList(copied.out))
    IN  UNION {{Run(libraries, o) : o \in Orders(Inits(libraries))} :
                  libraries \in libOrders}

-----------------------------------------------------------------------------
(* create_zip *)

\* DEFAULT_MAIN, by its import statements
DefaultMain ==
    Text(<<KW_IMPORT, "sys", NL, KW_IMPORT, "importlib", NL, KW_IMPORT, "runpy", NL>>)

\* the content of a file of the source tree: it differs from file to file
FileData(f) ==
    IF EndsWithPy(f)
    THEN Text(<<KW_IMPORT, "pkg", DOT, "mod", NL>> \o f[Len(f)])
    ELSE Binary

\* an input of create_zip: a file, or a directory with the files below it
\* (paths relative to the directory)
FileItem(name) == [name |-> name, isfile |-> TRUE, files |-> {}]
DirItem(name, files) == [name |-> name, isfile |-> FALSE, files |-> files]

\* the directories of a directory item, relative to it, itself included
DirsOf(item) ==
    {<<>>} \cup UNION {{SubSeq(f, 1, k) : k \in 0..(Len(f) - 1)} : f \in item.files}

\* files above the size given to ignore_larger_than
LargeFiles == {<<"big", PY>>}

\* one filter applied to one name: include_only_patterns("*.py") (files not
\* matching *.py), shutil.ignore_patterns("*.py") (any name matching *.py)
\* or ignore_larger_than(size) (files above the size)
Filter(f, name, isfile) ==
    CASE f = "py_only" -> isfile /\ ~EndsWithPy(<<name>>)
      [] f = "no_py" -> EndsWithPy(<<name>>)
      [] f = "larger" -> isfile /\ name \in LargeFiles

\* the ignore callable applied to one name: a chain of filters excludes what
\* any of them excludes; None is the empty chain
Ignores(ignore, name, isfile) ==
    \E f \in ignore : Filter(f, name, isfile)

\* the staging directory: its files (entries) and its directories
EmptyTree == [files |-> {}, dirs |-> {}]

\* a file written at a path replaces the file that was there
PutFiles(files, new) ==
    {e \in files : \A n \in new : n.name # e.name} \cup new

\* lines 76-86: one input copied to main_dir / og_dir.name
StageItem(tree, item, ignore) ==
    IF Ignores(ignore, item.name, item.isfile) THEN tree
    ELSE IF item.isfile
    THEN [tree EXCEPT !.files =
              PutFiles(@, {Entry(<<item.name>>, FileData(<<item.name>>))})]
    ELSE LET KeptDir(d) == \A k \in 1..Len(d) : ~Ignores(ignore, d[k], FALSE)
             KeptFile(f) == /\ KeptDir(SubSeq(f, 1, Len(f) - 1))
                            /\ ~Ignores(ignore, f[Len(f)], TRUE)
         IN  [files |-> PutFiles(tree.files,
                           {Entry(<<item.name>> \o f, FileData(f)) :
                               f \in {g \in item.files : KeptFile(g)}}),
              dirs |-> tree.dirs \cup
                           {<<item.name>> \o d :
                               d \in {c \in DirsOf(item) : KeptDir(c)}}]

RECURSIVE Stage(_, _, _)
Stage(tree, files_and_folders, ignore) ==
    IF files_and_folders = <<>> THEN tree
    ELSE Stage(StageItem(tree, Head(files_and_folders), ignore),
               Tail(files_and_folders), ignore)

\* str(p) for p in main_dir.glob("**/*.py"): absolute paths, which split("/")
\* starts with the empty string
MainDir == << <<>>, <<"tmp">>, <<"tmpdir">> >>

GlobPy(tree) ==
    {MainDir \o e.name : e \in {x \in tree.files : EndsWithPy(x.name)}}
    \cup {MainDir \o d : d \in {x \in tree.dirs : EndsWithPy(x)}}

\* lines 90-91: _get_library_names(all_pyfiles, index=0)
DerivedLibraryNames(tree) == GetLibraryNames(GlobPy(tree), 0)

\* lines 92-99: the manifest, packages.txt and the default __main__.py
WithMetadata(tree, manifest) ==
    LET files1 == PutFiles(tree.files,
                           {Entry(ManifestPath, Json(manifest)),
                            Entry(<<PackagesName>>, Text(<<>>))})
    IN  [tree EXCEPT !.files =
            IF \E e \in files1 : e.name = <<MainPy>>
            THEN files1
            ELSE files1 \cup {Entry(<<MainPy>>, DefaultMain)}]

\* the listing order of a directory: sorted for the directories; for the
\* files it is the file system's, and the model lists them in this order
SegOrder ==
    << <<"docs">>, <<"pkg">>, <<"sub">>, PackagesName, <<"a", PY>>,
       <<"big", PY>>, <<"notes", ".txt">>, ManifestName, MainPy, <<"mod", PY>>,
       <<"deep", PY>>, <<"data", ".txt">>, <<"readme", ".txt">> >>

\* the children of `dir` among `paths`, in listing order
Listing(paths, dir) ==
    LET here == {p \in paths : Len(p) = Len(dir) + 1 /\ SubSeq(p, 1, Len(dir)) = dir}
        segs == SelectSeq(SegOrder, LAMBDA x : dir \o <<x>> \in here)
    IN  [i \in 1..Len(segs) |-> dir \o <<segs[i]>>]

RECURSIVE ConcatAll(_)
ConcatAll(ss) == IF ss = <<>> THEN <<>> ELSE Head(ss) \o ConcatAll(Tail(ss))

\* shutil.make_archive(..., "zip", root_dir=main_dir): os.walk from the root;
\* per directory an entry "<dir>/" for each subdirectory, then its files
RECURSIVE Walk(_, _)
Walk(tree, dir) ==
    LET subdirs == Listing(tree.dirs, dir)
        files == Listing({e.name : e \in tree.files}, dir)
    IN  [i \in 1..Len(subdirs) |-> Entry(subdirs[i] \o << <<>> >>, Text(<<>>))]
        \o [i \in 1..Len(files) |->
               CHOOSE e \in tree.files : e.name = files[i]]
        \o ConcatAll([i \in 1..Len(subdirs) |-> Walk(tree, subdirs[i])])

MakeArchive(tree) == Walk(tree, <<>>)

\* every archive create_zip can leave at output_zipname for one call: the
\* derived library names are a list made from a set, in any order
CreateZipRuns(files_and_folders, library_names, ignore) ==
    LET tree == Stage(EmptyTree, files_and_folders, ignore)
        manifests == IF library_names.given THEN {library_names.names}
                     ELSE Orders(DerivedLibraryNames(tree))
    IN  {MakeArchive(WithMetadata(tree, m)) : m \in manifests}

-----------------------------------------------------------------------------
(* _get_python_libraries *)

\* path.suffix == ".py" and path.stem
SuffixIsPy(seg) == Len(seg) >= 2 /\ seg[Len(seg)] = PY
Stem(seg) == SubSeq(seg, 1, Len(seg) - 1)

\* glob(str(path / "**/*.py"), recursive=True) finds something below `dir`
HasPyBelow(tree, dir) ==
    \E p \in {e.name : e \in tree.files} \cup tree.dirs :
        /\ Len(p) > Len(dir)
        /\ SubSeq(p, 1, Len(dir)) = dir
        /\ EndsWithPy(p)

\* the keys of the dict _get_python_libraries returns for a directory
GetPythonLibraries(tree) ==
    LET top == {e.name : e \in {x \in tree.files : Len(x.name) = 1}}
               \cup {d \in tree.dirs : Len(d) = 1}
    IN  {Stem(p[1]) : p \in {q \in top : SuffixIsPy(q[1])}}
        \cup {p[1] : p \in {q \in top : /\ ~SuffixIsPy(q[1])
                                        /\ q \in tree.dirs
                                        /\ HasPyBelow(tree, q)}}

-----------------------------------------------------------------------------
(* checkpoint *)

\* a folder of the file system is a directory item; glob(str(folder / "*")):
\* its top-level files and directories, in listing order
TopItems(folder) ==
    LET tops == {f[1] : f \in folder.files}
        names == SelectSeq(SegOrder, LAMBDA s : s \in tops)
    IN  [i \in 1..Len(names) |->
            IF <<names[i]>> \in folder.files
            THEN FileItem(names[i])
            ELSE DirItem(names[i],
                         {Tail(f) : f \in {g \in folder.files :
                                              Len(g) > 1 /\ g[1] = names[i]}})]

\* the folder as the tree _get_python_libraries iterates
FolderTree(folder) ==
    [files |-> {Entry(f, FileData(f)) : f \in folder.files},
     dirs |-> DirsOf(folder) \ {<<>>}]

\* Path(path).stem
PathStem(seg) == IF Len(seg) >= 2 THEN SubSeq(seg, 1, Len(seg) - 1) ELSE seg

\* the dict _get_python_libraries returns, as the list of its items: the
\* name of each library and the path it was found at
PythonLibraries(folder) ==
    LET names == GetPythonLibraries(FolderTree(folder))
        LibKey(item) == IF SuffixIsPy(item.name) THEN Stem(item.name)
                        ELSE item.name
        libs == SelectSeq(TopItems(folder),
                          LAMBDA it : /\ SuffixIsPy(it.name) \/ ~it.isfile
                                      /\ LibKey(it) \in names)
    IN  [i \in 1..Len(libs) |-> [key |-> LibKey(libs[i]), value |-> libs[i]]]

\* d[k] = v on a dict: a key already there keeps its place
DictSet(d, k, v) ==
    IF \E i \in 1..Len(d) : d[i].key = k
    THEN [i \in 1..Len(d) |-> IF d[i].key = k THEN [key |-> k, value |-> v]
                              ELSE d[i]]
    ELSE Append(d, [key |-> k, value |-> v])

\* d.update(items)
RECURSIVE DictUpdate(_, _)
DictUpdate(d, items) ==
    IF items = <<>> THEN d
    ELSE DictUpdate(DictSet(d, Head(items).key, Head(items).value), Tail(items))

\* lines 69-71: the libraries of every extra search root
RECURSIVE SearchRoots(_, _)
SearchRoots(d, extra_pythonpath) ==
    IF extra_pythonpath = <<>> THEN d
    ELSE SearchRoots(DictUpdate(d, PythonLibraries(Head(extra_pythonpath))),
                     Tail(extra_pythonpath))

\* lines 74-76: all_libs[path.stem] = path for every extra library
RECURSIVE ExtraLibraries(_, _)
ExtraLibraries(d, extra_libraries) ==
    IF extra_libraries = <<>> THEN d
    ELSE ExtraLibraries(DictSet(d, PathStem(Head(extra_libraries).name),
                                Head(extra_libraries)),
                        Tail(extra_libraries))

\* lines 88-101: the filters chained into the ignore callable
CheckpointIgnore(args) ==
    args.ignore
    \cup (IF args.py_only THEN {"py_only"} ELSE {})
    \cup (IF args.ignore_larger_than THEN {"larger"} ELSE {})

\* checkpoint(main_folder, output_zipname, extra_libraries, extra_pythonpath,
\* ignore, ignore_patterns, py_only, ignore_larger_than): whether it raised
\* and the archive it wrote.  _get_python_libraries(Path(main_folder)) is
\* called whether or not main_folder is None; the filter made of
\* ignore_patterns is handed the tuple as one pattern and raises when it is
\* first applied to a name.
Checkpoint(args) ==
    LET all_libs == ExtraLibraries(
                        DictUpdate(SearchRoots(<<>>, args.extra_pythonpath),
                                   PythonLibraries(args.main_folder)),
                        args.extra_libraries)
        all_files == [i \in 1..Len(all_libs) |-> all_libs[i].value]
                     \o TopItems(args.main_folder)
        library_names == [i \in 1..Len(all_libs) |-> all_libs[i].key]
        raised == \/ ~args.main_given
                  \/ args.ignore_patterns /\ all_files # <<>>
    IN  [raised |-> raised,
         zips |-> IF raised THEN {}
                  ELSE CreateZipRuns(all_files, Some(library_names),
                                     CheckpointIgnore(args))]

-----------------------------------------------------------------------------
(* change_launcher *)

\* an optional argument: None, or the value given
NoArg == [given |-> FALSE, value |-> <<>>]
Arg(v) == [given |-> TRUE, value |-> v]

\* the files outside the archive: one launcher file exists
LaunchFile == << <<"launch", PY>> >>
MissingFile == << <<"missing", PY>> >>
ExternalExists(path) == path = LaunchFile
ExternalData(path) == Text(<<KW_IMPORT, "pkg", NL, "launch">>)

\* """import runpy; runpy.run_module("{}")""".format(module_name)
RunModuleStub(module_name) ==
    Text(<<KW_IMPORT, "runpy", ";", SP, "runpy", DOT, "run_module", "(">>
         \o module_name \o <<")">>)

\* line 187: exactly one of the three arguments is given
ExactlyOneGiven(args) ==
    Cardinality({k \in {"external_path", "internal_path", "module_name"} :
                    args[k].given}) = 1

\* lines 189-199: the archive rewritten without its __main__.py and moved
\* over zip_file, when it has one
WithoutMain(zip) ==
    IF <<MainPy>> \in Range(NameList(zip))
    THEN SelectSeq(zip, LAMBDA e : e.name # <<MainPy>>)
    ELSE zip

\* lines 202-211: the launcher appended to the archive at zip_file; zf.write
\* of a file that does not exist and zf.read of a name that is not in the
\* archive raise, and the archive stays as it was opened
AppendMain(zip, args) ==
    CASE args.external_path.given ->
            IF ExternalExists(args.external_path.value)
            THEN [raised |-> FALSE,
                  zip |-> Append(zip, Entry(<<MainPy>>,
                                            ExternalData(args.external_path.value)))]
            ELSE [raised |-> TRUE, zip |-> zip]
      [] args.internal_path.given ->
            IF args.internal_path.value \in Range(NameList(zip))
            THEN [raised |-> FALSE,
                  zip |-> Append(zip, Entry(<<MainPy>>,
                                            ZipRead(zip, args.internal_path.value)))]
            ELSE [raised |-> TRUE, zip |-> zip]
      [] OTHER ->
            [raised |-> FALSE,
             zip |-> Append(zip, Entry(<<MainPy>>,
                                       RunModuleStub(args.module_name.value)))]

\* change_launcher(zip_file, external_path, internal_path, module_name):
\* whether it raised and the archive it leaves at zip_file
ChangeLauncher(zip, args) ==
    IF ~ExactlyOneGiven(args) THEN [raised |-> TRUE, zip |-> zip]
    ELSE AppendMain(WithoutMain(zip), args)

-----------------------------------------------------------------------------
(* Codebase and UniqueCodebase *)

MaxHandles == 2
MaxTicks == 3

Handles == 1..MaxHandles

\* the paths of the model: archives, the temporary files of mktemp (a new
\* name at every call) and a directory that is on sys.path from the start
OutZip == "codebase.zip"
LibZip == "lib.zip"
NsZip == "unique.zip"
SitePath == "site-packages"
TmpName(h) == "tmp" \o ToString(h) \o ".zip"
Paths == {OutZip, LibZip, NsZip, SitePath} \cup {TmpName(h) : h \in Handles}

NoModule == [name |-> <<>>, origin |-> ""]

Unused ==
    [state |-> "unused", kind |-> "none", zip_name |-> "",
     library_name |-> <<>>, valid_libraries |-> {}, module |-> NoModule,
     path_before |-> <<>>, alone |-> FALSE]

NoOp == [op |-> "none", h |-> 0, zip |-> "", raised |-> FALSE,
         warned |-> FALSE, alone |-> FALSE, before |-> <<>>,
         name |-> <<>>, things |-> <<>>, is_str |-> FALSE, ret |-> <<>>]

\* sys.path.remove(x): the first occurrence
RECURSIVE RemoveFirst(_, _)
RemoveFirst(path, x) ==
    IF path = <<>> THEN <<>>
    ELSE IF Head(path) = x THEN Tail(path)
    ELSE <<Head(path)>> \o RemoveFirst(Tail(path), x)

\* the comprehension of valid_libraries raises IndexError: a name holding
\* ".py" has no second segment
ValidLibrariesRaises(all_files) ==
    \E f \in Range(all_files) : HasPy(f) /\ Len(f) < 2

\* lines 239-247 (index 0) and 320-328 (index 1)
ValidLibraries(all_files, index) ==
    {RemovePy(f[index + 1]) :
        f \in {g \in Range(all_files) : HasPy(g) /\ INIT \notin Range(g[2])}}

\* another operation changed sys.path: the other live handles are no longer
\* alone with their own mount
Disturb(hs, h) ==
    [k \in Handles |-> IF k = h THEN hs[k] ELSE [hs[k] EXCEPT !.alone = FALSE]]

\* mutant: the archive appended to sys.path
Mount_Append(path, zip_name) == path \o <<zip_name>>

\* sys.path.insert(0, zip_name)
Mount(path, zip_name) == <<zip_name>> \o path

\* Codebase(zip_name)
CodebaseInit(h, zip_name) ==
    /\ handles[h].state = "unused"
    /\ disk[zip_name].exists
    /\ LET all_files == NameList(disk[zip_name].entries)
       IN  IF ValidLibrariesRaises(all_files)
           THEN /\ handles' = [handles EXCEPT ![h].state = "failed"]
                /\ last' = [NoOp EXCEPT !.op = "Codebase", !.h = h,
                                        !.zip = zip_name, !.raised = TRUE]
                /\ UNCHANGED <<sys_path, cache_stale, ran_already>>
           ELSE /\ sys_path' = Mount(sys_path, zip_name)
                /\ cache_stale' = TRUE
                /\ ran_already' = TRUE
                /\ handles' = [Disturb(handles, h) EXCEPT ![h] =
                       [Unused EXCEPT !.state = "live", !.kind = "Codebase",
                                      !.zip_name = zip_name,
                                      !.valid_libraries = ValidLibraries(all_files, 0),
                                      !.path_before = sys_path,
                                      !.alone = TRUE]]
                /\ last' = [NoOp EXCEPT !.op = "Codebase", !.h = h,
                                        !.zip = zip_name,
                                        !.warned = ran_already]
    /\ UNCHANGED <<disk, sys_modules, clock>>

\* UniqueCodebase(zip_name, verbose, make_unique)
UniqueCodebaseInit(h, zip_name, verbose, make_unique) ==
    /\ handles[h].state = "unused"
    /\ disk[zip_name].exists
    /\ \E run \in CreateUniqueZipRuns(disk[zip_name].entries, <<>>, None,
                                      TRUE, TRUE, clock) :
         LET mounted == IF make_unique THEN TmpName(h) ELSE zip_name
             disk1 == IF make_unique
                      THEN [disk EXCEPT ![mounted] = Present(run.out)]
                      ELSE disk
             all_files == NameList(disk1[mounted].entries)
             failed == [handles EXCEPT ![h].state = "failed"]
             op == [NoOp EXCEPT !.op = "UniqueCodebase", !.h = h,
                                !.zip = mounted]
         IN  /\ disk' = disk1
             /\ IF (make_unique /\ run.err) \/ all_files = <<>>
                THEN \* create_unique_zip or all_files[0] raised
                     /\ handles' = failed
                     /\ last' = [op EXCEPT !.raised = TRUE]
                     /\ UNCHANGED <<sys_path, cache_stale>>
                ELSE /\ sys_path' = Mount(sys_path, mounted)
                     /\ cache_stale' = FALSE
                     /\ IF \/ ValidLibrariesRaises(all_files)
                           \/ (verbose /\ ValidLibraries(all_files, 1) = {})
                        THEN \* raised after sys.path.insert
                             /\ handles' = Disturb(failed, h)
                             /\ last' = [op EXCEPT !.raised = TRUE]
                        ELSE /\ handles' = [Disturb(handles, h) EXCEPT ![h] =
                                   [Unused EXCEPT
                                       !.state = "live",
                                       !.kind = "UniqueCodebase",
                                       !.zip_name = mounted,
                                       !.library_name = all_files[1][1],
                                       !.valid_libraries = ValidLibraries(all_files, 1),
                                       !.path_before = sys_path,
                                       !.alone = TRUE]]
                             /\ last' = op
    /\ UNCHANGED <<sys_modules, ran_already, clock>>

\* close() of either class
Close(h) ==
    /\ handles[h].state \in {"live", "closed"}
    /\ IF handles[h].zip_name \notin Range(sys_path)
       THEN \* sys.path.remove raises ValueError
            /\ last' = [NoOp EXCEPT !.op = "close", !.h = h,
                                    !.zip = handles[h].zip_name, !.raised = TRUE]
            /\ UNCHANGED <<sys_path, cache_stale, handles>>
       ELSE /\ sys_path' = RemoveFirst(sys_path, handles[h].zip_name)
            /\ cache_stale' = FALSE
            /\ handles' = [Disturb(handles, h) EXCEPT ![h].state = "closed",
                                                      ![h].alone = FALSE]
            /\ last' = [NoOp EXCEPT !.op = "close", !.h = h,
                                    !.zip = handles[h].zip_name,
                                    !.alone = handles[h].alone /\ handles[h].state = "live",
                                    !.before = handles[h].path_before]
    /\ UNCHANGED <<disk, sys_modules, ran_already, clock>>

\* the file of module `qualified` in an archive: <path>.py or <path>/__init__.py
HoldsModule(zip, qualified) ==
    LET n == Len(qualified)
    IN  \E e \in Range(zip) :
            \/ e.name = SubSeq(qualified, 1, n - 1) \o <<qualified[n] \o <<PY>> >>
            \/ e.name = qualified \o <<InitPy>>

\* the entries of sys.path that hold the module, in order
Finders(qualified) ==
    SelectSeq(sys_path,
              LAMBDA p : disk[p].exists /\ HoldsModule(disk[p].entries, qualified))

ImportNames == { << <<"a">> >>, << <<"pkg">>, <<"mod">> >> }

\* UniqueCodebase.import_module(name): importlib.import_module of
\* f"{self.library_name}.{name}", answered from sys.modules when the name
\* is there and by the first entry of sys.path that holds it otherwise
ImportModule(h, name) ==
    /\ handles[h].state = "live"
    /\ handles[h].kind = "UniqueCodebase"
    /\ LET qualified == <<handles[h].library_name>> \o name
           cached == {m \in sys_modules : m.name = qualified}
           op == [NoOp EXCEPT !.op = "import_module", !.h = h,
                              !.zip = handles[h].zip_name]
       IN  IF cached # {}
           THEN /\ handles' = [handles EXCEPT ![h].module = CHOOSE m \in cached : TRUE]
                /\ last' = op
                /\ UNCHANGED sys_modules
           ELSE IF Finders(qualified) # <<>>
           THEN LET m == [name |-> qualified, origin |-> Head(Finders(qualified))]
                IN  /\ sys_modules' = sys_modules \cup {m}
                    /\ handles' = [handles EXCEPT ![h].module = m]
                    /\ last' = op
           ELSE \* ModuleNotFoundError
                /\ last' = [op EXCEPT !.raised = TRUE]
                /\ UNCHANGED <<sys_modules, handles>>
    /\ UNCHANGED <<disk, sys_path, cache_stale, ran_already, clock>>

\* the names a module of the archives defines
ModuleAttributes(name) ==
    CASE name = << <<"pkg">> >> -> {"x", "y"}
      [] name = << <<"pkg">>, <<"mod">> >> -> {"v"}
      [] OTHER -> {}

\* importlib.import_module(qualified) with `mods` for sys.modules: the
\* module found, or none (ModuleNotFoundError)
Resolve(mods, qualified) ==
    LET cached == {m \in mods : m.name = qualified}
    IN  IF cached # {} THEN [found |-> TRUE, module |-> CHOOSE m \in cached : TRUE]
        ELSE IF Finders(qualified) # <<>>
        THEN [found |-> TRUE,
              module |-> [name |-> qualified, origin |-> Head(Finders(qualified))]]
        ELSE [found |-> FALSE, module |-> NoModule]

\* the keys of {t: t for t in things_to_import}: each name once, in the
\* order of its first occurrence
RECURSIVE DictKeys(_)
DictKeys(things) ==
    IF things = <<>> THEN <<>>
    ELSE LET front == DictKeys(SubSeq(things, 1, Len(things) - 1))
             t == things[Len(things)]
         IN  IF t \in Range(front) THEN front ELSE Append(front, t)

\* lines 375-381: getattr(module, thing), or the submodule name.thing when
\* the module has no such attribute; the values gathered for `things` from
\* the left, the modules imported on the way, and whether an import raised
RECURSIVE Gather(_, _, _, _)
Gather(library_name, name, things, mods) ==
    IF things = <<>> THEN [raised |-> FALSE, ret |-> <<>>, mods |-> mods]
    ELSE LET thing == Head(things)
             sub == Resolve(mods, <<library_name>> \o name \o << <<thing>> >>)
         IN  IF thing \in ModuleAttributes(name)
             THEN LET rest == Gather(library_name, name, Tail(things), mods)
                  IN  [rest EXCEPT !.ret =
                          <<[module |-> name, attr |-> thing]>> \o @]
             ELSE IF sub.found
             THEN LET rest == Gather(library_name, name, Tail(things),
                                     mods \cup {sub.module})
                  IN  [rest EXCEPT !.ret =
                          <<[module |-> name \o << <<thing>> >>, attr |-> ""]>>
                          \o @]
             ELSE [raised |-> TRUE, ret |-> <<>>, mods |-> mods]

\* lines 382-384: the one value, or the list
Returned(ret) ==
    IF Len(ret) = 1 THEN [kind |-> "value", items |-> ret]
    ELSE [kind |-> "list", items |-> ret]

\* UniqueCodebase.from_import(name, things_to_import, as_): things_to_import
\* is a string (is_str) or a list; as_ is None (given FALSE) or a name
FromImport(h, name, things_to_import, is_str, as_given) ==
    /\ handles[h].state = "live"
    /\ handles[h].kind = "UniqueCodebase"
    /\ is_str => Len(things_to_import) = 1
    /\ LET library_name == handles[h].library_name
           module == Resolve(sys_modules, <<library_name>> \o name)
           mods1 == sys_modules \cup {module.module}
           keys == IF as_given THEN things_to_import
                   ELSE DictKeys(things_to_import)
           run == Gather(library_name, name, keys, mods1)
           op == [NoOp EXCEPT !.op = "from_import", !.h = h,
                              !.zip = handles[h].zip_name,
                              !.name = name,
                              !.things = things_to_import,
                              !.is_str = is_str]
       IN  IF ~module.found
           THEN \* ModuleNotFoundError
                /\ last' = [op EXCEPT !.raised = TRUE]
                /\ UNCHANGED <<sys_modules, handles>>
           ELSE IF as_given /\ Len(things_to_import) # 1
           THEN \* AssertionError
                /\ sys_modules' = mods1
                /\ handles' = [handles EXCEPT ![h].module = module.module]
                /\ last' = [op EXCEPT !.raised = TRUE]
           ELSE /\ sys_modules' = run.mods
                /\ handles' = [handles EXCEPT ![h].module = module.module]
                /\ last' = IF run.raised THEN [op EXCEPT !.raised = TRUE]
                           ELSE [op EXCEPT !.ret = Returned(run.ret)]
    /\ UNCHANGED <<disk, sys_path, cache_stale, ran_already, clock>>

\* time passes
Tick ==
    /\ clock < MaxTicks
    /\ clock' = clock + 1
    /\ UNCHANGED <<disk, sys_path, sys_modules, cache_stale, ran_already,
                   handles, last>>

-----------------------------------------------------------------------------
(* The parts of the state a specification leaves alone *)

RwIdle ==
    /\ rw_pc = "idle"
    /\ rw_text = <<>>
    /\ rw_libs = {}
    /\ rw_prefix = <<>>
    /\ rw_order = <<>>
    /\ rw_out = <<>>

NsIdle ==
    /\ ns_pc = "idle"
    /\ ns_in = <<>>
    /\ ns_args = [prefix |-> <<>>, library_names |-> None,
                  save_non_code |-> TRUE, add_init |-> TRUE]
    /\ ns_now = 0
    /\ ns_prefix = <<>>
    /\ ns_out = Absent
    /\ ns_err = FALSE

BIdle ==
    /\ b_pc = "idle"
    /\ b_inputs = <<>>
    /\ b_args = [library_names |-> None, ignore |-> {}]

\* a hand-made archive with no file at its root, and its namespaced copy
LibArchive ==
    << Entry(<< <<"pkg">>, <<>> >>, Text(<<>>)),
       Entry(<< <<"pkg">>, InitPy >>, Text(<<>>)),
       Entry(<< <<"pkg">>, <<"mod", PY>> >>, FileData(<< <<"mod", PY>> >>)) >>

NsArchive ==
    (CHOOSE run \in CreateUniqueZipRuns(LibArchive, <<"ns1">>, None, TRUE, TRUE, 0) :
        TRUE).out

CpIdle ==
    /\ cp_pc = "idle"
    /\ cp_args = <<>>
    /\ cp_err = FALSE

LcIdle ==
    /\ lc_pc = "idle"
    /\ lc_args = <<>>
    /\ lc_before = <<>>
    /\ lc_err = FALSE

LdIdle ==
    /\ disk = [p \in Paths |-> Absent]
    /\ sys_path = <<SitePath>>
    /\ sys_modules = {}
    /\ cache_stale = FALSE
    /\ ran_already = FALSE
    /\ clock = 0
    /\ handles = [h \in Handles |-> Unused]
    /\ last = NoOp

-----------------------------------------------------------------------------
(* The rewriter on its own: inputs drawn from bounded sets *)

MaxTextLen == 4

TextAlphabet == {KW_IMPORT, KW_FROM, SP, DOT, NL, COMMA} \cup Letters
\* "ab" has "a" as a proper prefix, as foobar has foo
Names == {<<"a">>, <<"b">>, <<"a", "b">>}
\* a prefix that is no library, and two that are also library names
RwPrefixes == {<<"p">>, <<"a">>, <<"b">>}

RwInit ==
    /\ rw_pc = "ready"
    /\ rw_text \in SeqsUpTo(TextAlphabet, MaxTextLen)
    /\ rw_libs \in SUBSET Names
    /\ rw_prefix \in RwPrefixes
    /\ rw_order = <<>>
    /\ rw_out = <<>>
    /\ NsIdle /\ BIdle /\ LdIdle /\ CpIdle /\ LcIdle

\* _fix_all_imports(s, library_names, ...): `libraries` is a list made from
\* a set or read from the manifest, so its order is any order of the set
Rewrite ==
    /\ rw_pc = "ready"
    /\ \E order \in Orders(rw_libs) :
          /\ rw_order' = order
          /\ rw_out' = FixAllImports(rw_text, order, rw_prefix)
    /\ rw_pc' = "done"
    /\ UNCHANGED <<rw_text, rw_libs, rw_prefix>>
    /\ UNCHANGED <<ns_vars, b_vars, ld_vars, cp_vars, lc_vars>>

RwNext == Rewrite

SpecRewrite == RwInit /\ [][RwNext]_vars

-----------------------------------------------------------------------------
(* The namespacer on its own: create_unique_zip on bounded archives *)

MaxEntries == 3

SrcText == <<KW_IMPORT, "pkg", DOT, "mod", NL, KW_FROM, "a", DOT, "x">>

\* the entries an input archive is made of; "pkg/" is a directory entry
NsCandidates ==
    { Entry(<< <<"a", PY>> >>, Text(SrcText)),
      Entry(<< <<"a", PY>> >>, Binary),
      Entry(<< <<"pkg">>, <<>> >>, Text(<<>>)),
      Entry(<< <<"pkg">>, InitPy >>, Text(<<>>)),
      Entry(<< <<"pkg">>, <<"mod", PY>> >>, Text(SrcText)),
      Entry(<< <<"pkg">>, <<"sub">>, <<"deep", PY>> >>, Binary),
      Entry(<< <<"pkg">>, <<"sub">>, <<"deep", PY>> >>, Text(<<>>)),
      Entry(<< <<"data", ".bin">> >>, Binary),
      Entry(ManifestPath, Json(<< <<"pkg">>, <<"a">> >>)) }

\* paths are unique within an archive
UniqueNames(zip) ==
    \A i, j \in 1..Len(zip) : zip[i].name = zip[j].name => i = j

NsArchives == {z \in SeqsUpTo(NsCandidates, MaxEntries) : UniqueNames(z)}

NsArgs ==
    [prefix : {<<>>, <<"ns1">>},
     library_names : {None, Some(<< <<"pkg">> >>)},
     save_non_code : BOOLEAN,
     add_init : BOOLEAN]

NsInit ==
    /\ ns_pc = "ready"
    /\ ns_in \in NsArchives
    /\ ns_args \in NsArgs
    /\ ns_now \in {0, TicksPerSecond + 1}
    /\ ns_prefix = <<>>
    /\ ns_out = Absent
    /\ ns_err = FALSE
    /\ RwIdle /\ BIdle /\ LdIdle /\ CpIdle /\ LcIdle

\* create_unique_zip(input_zipname, output_zipname, ...): ZipFile(output, "w")
\* creates the file, every writestr adds to it, and leaving the with block
\* (by return or by exception) closes it where it is
CreateUniqueZip ==
    /\ ns_pc = "ready"
    /\ \E run \in CreateUniqueZipRuns(ns_in, ns_args.prefix, ns_args.library_names,
                                      ns_args.save_non_code, ns_args.add_init, ns_now) :
          /\ ns_prefix' = run.prefix
          /\ ns_out' = Present(run.out)
          /\ ns_err' = run.err
    /\ ns_pc' = "done"
    /\ UNCHANGED <<ns_in, ns_args, ns_now>>
    /\ UNCHANGED <<rw_vars, b_vars, ld_vars, cp_vars, lc_vars>>

NsNext == CreateUniqueZip

SpecNamespace == NsInit /\ [][NsNext]_vars

-----------------------------------------------------------------------------
(* The archive builder: create_zip on bounded inputs, and the single-mount
   loader on the archive it wrote *)

MaxInputs == 2

PkgFiles ==
    { << <<"mod", PY>> >>, << <<"sub">>, <<"deep", PY>> >>, << <<"data", ".txt">> >> }

BuildItems ==
    {FileItem(<<"a", PY>>), FileItem(<<"notes", ".txt">>), FileItem(MainPy),
     DirItem(<<"docs">>, { << <<"readme", ".txt">> >> })}
    \cup {DirItem(<<"pkg">>, fs) : fs \in SUBSET PkgFiles}

BuildInputs ==
    {x \in SeqsUpTo(BuildItems, MaxInputs) :
        \A i, j \in 1..Len(x) : x[i].name = x[j].name => i = j}

BuildArgs ==
    [library_names : {None, Some(<< <<"pkg">> >>)},
     ignore : {{}, {"py_only"}, {"no_py"}}]

BInit ==
    /\ b_pc = "ready"
    /\ b_inputs \in BuildInputs
    /\ b_args \in BuildArgs
    /\ RwIdle /\ NsIdle /\ LdIdle /\ CpIdle /\ LcIdle

\* create_zip(files_and_folders, output_zipname, library_names, ignore)
CreateZip ==
    /\ b_pc = "ready"
    /\ \E zip \in CreateZipRuns(b_inputs, b_args.library_names, b_args.ignore) :
          disk' = [disk EXCEPT ![OutZip] = Present(zip)]
    /\ b_pc' = "done"
    /\ UNCHANGED <<b_inputs, b_args>>
    /\ UNCHANGED <<sys_path, sys_modules, cache_stale, ran_already, clock,
                   handles, last>>
    /\ UNCHANGED <<rw_vars, ns_vars, cp_vars, lc_vars>>

\* Codebase(output_zipname) on the archive create_zip wrote
LoadBuilt ==
    /\ b_pc = "done"
    /\ \E h \in Handles : CodebaseInit(h, OutZip)
    /\ UNCHANGED <<rw_vars, ns_vars, b_vars, cp_vars, lc_vars>>

BNext == CreateZip \/ LoadBuilt

SpecBuild == BInit /\ [][BNext]_vars

-----------------------------------------------------------------------------
(* checkpoint on bounded folders, libraries, search roots and filters *)

MaxExtra == 1

\* the files a main folder may hold
MainFiles ==
    { << <<"a", PY>> >>, << <<"big", PY>> >>, << <<"notes", ".txt">> >>,
      << <<"pkg">>, <<"mod", PY>> >>, << <<"pkg">>, <<"data", ".txt">> >> }

MainFolders == {DirItem(<<"proj">>, fs) : fs \in SUBSET MainFiles}

ExtraLibraryItems ==
    {DirItem(<<"pkg">>, { << <<"mod", PY>> >> }), FileItem(<<"a", PY>>)}

SearchRootItems ==
    {DirItem(<<"site">>, { << <<"a", PY>> >>, << <<"sub">>, <<"deep", PY>> >> })}

CheckpointArgs ==
    [main_given : BOOLEAN,
     main_folder : MainFolders,
     extra_libraries : SeqsUpTo(ExtraLibraryItems, MaxExtra),
     extra_pythonpath : SeqsUpTo(SearchRootItems, MaxExtra),
     ignore : {{}, {"no_py"}},
     ignore_patterns : BOOLEAN,
     py_only : BOOLEAN,
     ignore_larger_than : BOOLEAN]

CpInit ==
    /\ cp_pc = "ready"
    /\ cp_args \in CheckpointArgs
    /\ cp_err = FALSE
    /\ RwIdle /\ NsIdle /\ BIdle /\ LdIdle /\ LcIdle

\* checkpoint(main_folder, output_zipname, ...)
CheckpointCall ==
    /\ cp_pc = "ready"
    /\ LET run == Checkpoint(cp_args)
       IN  /\ cp_err' = run.raised
           /\ IF run.raised THEN UNCHANGED disk
              ELSE \E zip \in run.zips :
                      disk' = [disk EXCEPT ![OutZip] = Present(zip)]
    /\ cp_pc' = "done"
    /\ UNCHANGED cp_args
    /\ UNCHANGED <<sys_path, sys_modules, cache_stale, ran_already, clock,
                   handles, last>>
    /\ UNCHANGED <<rw_vars, ns_vars, b_vars, lc_vars>>

CpNext == CheckpointCall

SpecCheckpoint == CpInit /\ [][CpNext]_vars

-----------------------------------------------------------------------------
(* change_launcher on archives with and without an entry point *)

\* the archive create_zip writes for a.py and the directory pkg
BuiltArchive ==
    CHOOSE zip \in CreateZipRuns(<<FileItem(<<"a", PY>>),
                                   DirItem(<<"pkg">>, { << <<"mod", PY>> >> })>>,
                                 Some(<< <<"a">>, <<"pkg">> >>), {}) : TRUE

LauncherArchives == {BuiltArchive, LibArchive}

InternalPaths ==
    { << <<"a", PY>> >>, << <<"pkg">>, <<"mod", PY>> >>, <<MainPy>>,
      << <<"nope", PY>> >> }

LauncherArgs ==
    [external_path : {NoArg, Arg(LaunchFile), Arg(MissingFile)},
     internal_path : {NoArg} \cup {Arg(p) : p \in InternalPaths},
     module_name : {NoArg, Arg(<<"pkg", DOT, "mod">>), Arg(<<"a">>)}]

LcInit ==
    /\ lc_pc = "ready"
    /\ lc_args = <<>>
    /\ lc_before = <<>>
    /\ lc_err = FALSE
    /\ \E zip \in LauncherArchives :
          disk = [p \in Paths |-> IF p = OutZip THEN Present(zip) ELSE Absent]
    /\ sys_path = <<SitePath>>
    /\ sys_modules = {}
    /\ cache_stale = FALSE
    /\ ran_already = FALSE
    /\ clock = 0
    /\ handles = [h \in Handles |-> Unused]
    /\ last = NoOp
    /\ RwIdle /\ NsIdle /\ BIdle /\ CpIdle

\* change_launcher(output_zipname, ...), on the archive any earlier call left
ChangeLauncherCall ==
    /\ \E args \in LauncherArgs :
          LET run == ChangeLauncher(disk[OutZip].entries, args)
          IN  /\ lc_args' = args
              /\ lc_err' = run.raised
              /\ disk' = [disk EXCEPT ![OutZip] = Present(run.zip)]
    /\ lc_before' = disk[OutZip].entries
    /\ lc_pc' = "done"
    /\ UNCHANGED <<sys_path, sys_modules, cache_stale, ran_already, clock,
                   handles, last>>
    /\ UNCHANGED <<rw_vars, ns_vars, b_vars, cp_vars>>

LcNext == ChangeLauncherCall

SpecLauncher == LcInit /\ [][LcNext]_vars

-----------------------------------------------------------------------------
(* The loaders: archives on disk, handles constructed and closed *)

\* the archive create_zip writes for a.py and the directory pkg
PlainArchive ==
    CHOOSE zip \in CreateZipRuns(<<FileItem(<<"a", PY>>),
                                   DirItem(<<"pkg">>, { << <<"mod", PY>> >> })>>,
                                 Some(<< <<"a">>, <<"pkg">> >>), {}) : TRUE

LdInit ==
    /\ disk = [p \in Paths |->
                 CASE p = OutZip -> Present(PlainArchive)
                   [] p = LibZip -> Present(LibArchive)
                   [] p = NsZip -> Present(NsArchive)
                   [] OTHER -> Absent]
    /\ sys_path \in {<<SitePath>>, <<LibZip, SitePath>>, <<SitePath, LibZip>>}
    /\ sys_modules = {}
    /\ cache_stale = FALSE
    /\ ran_already = FALSE
    /\ clock = 0
    /\ handles = [h \in Handles |-> Unused]
    /\ last = NoOp
    /\ RwIdle /\ NsIdle /\ BIdle /\ CpIdle /\ LcIdle

LdZips == {OutZip, LibZip, NsZip}

LdTick == Tick /\ UNCHANGED <<rw_vars, ns_vars, b_vars, cp_vars, lc_vars>>

LdCodebase ==
    /\ \E h \in Handles, z \in LdZips : CodebaseInit(h, z)
    /\ UNCHANGED <<rw_vars, ns_vars, b_vars, cp_vars, lc_vars>>

LdUniqueCodebase ==
    /\ \E h \in Handles, z \in LdZips, verbose, make_unique \in BOOLEAN :
           UniqueCodebaseInit(h, z, verbose, make_unique)
    /\ UNCHANGED <<rw_vars, ns_vars, b_vars, cp_vars, lc_vars>>

LdClose ==
    /\ \E h \in Handles : Close(h)
    /\ UNCHANGED <<rw_vars, ns_vars, b_vars, cp_vars, lc_vars>>

LdImportModule ==
    /\ \E h \in Handles, n \in ImportNames : ImportModule(h, n)
    /\ UNCHANGED <<rw_vars, ns_vars, b_vars, cp_vars, lc_vars>>

LdNext == LdTick \/ LdCodebase \/ LdUniqueCodebase \/ LdClose \/ LdImportModule

SpecLoader == LdInit /\ [][LdNext]_vars

-----------------------------------------------------------------------------
(* Properties of the import rewriter *)

IsProperPrefix(l, m) == Len(l) < Len(m) /\ SubSeq(m, 1, Len(l)) = l

\* position i of s holds `kw`, then exactly the name `name` (no further
\* letter follows it)
NamedAt(s, i, kw, name) ==
    /\ MatchAt(s, <<kw>> \o name, i)
    /\ LET j == i + Len(name) + 1
       IN  j > Len(s) \/ s[j] \notin Letters

\* position i of s is a statement naming library `lib` that is followed by
\* a delimiter the rewriter asks for ("." after import or from, " " after
\* import); with loose, by any other follower of `import <lib>` as well
StmtAt(s, i, lib, loose) ==
    LET j == i + Len(lib) + 1
    IN  /\ i \in 1..Len(s)
        /\ s[i] \in {KW_IMPORT, KW_FROM}
        /\ MatchAt(s, lib, i + 1)
        /\ IF j > Len(s) THEN loose /\ s[i] = KW_IMPORT
           ELSE \/ s[j] = DOT
                \/ s[i] = KW_IMPORT /\ s[j] = SP
                \/ loose /\ s[i] = KW_IMPORT /\ s[j] \in {NL, COMMA}

\* one left-to-right scan of s that writes `prefix.` after the keyword of
\* every statement naming a library of libs
RECURSIVE Qualified(_, _, _, _, _)
Qualified(s, libs, prefix, loose, i) ==
    IF i > Len(s) THEN <<>>
    ELSE IF \E lib \in libs : StmtAt(s, i, lib, loose)
         THEN <<s[i]>> \o prefix \o <<DOT>> \o Qualified(s, libs, prefix, loose, i + 1)
         ELSE <<s[i]>> \o Qualified(s, libs, prefix, loose, i + 1)

\* where position i of the original text lies in the rewritten text when
\* `lib` is the only library
OutPos(s, lib, prefix, i) ==
    i + (Len(prefix) + 1) * Cardinality({j \in 1..(i - 1) : StmtAt(s, j, lib, FALSE)})

\* C4: with the one-library mapping {L -> prefix.L}, every "import L." of
\* the text reads "import prefix.L." in the result, and every import of a
\* name that merely has L as a proper prefix is still there, unchanged.
C4_ExactMatchSafe ==
    (rw_pc = "done" /\ Cardinality(rw_libs) = 1) =>
        LET L == CHOOSE l \in rw_libs : TRUE
        IN  \A i \in 1..Len(rw_text) :
               /\ MatchAt(rw_text, <<KW_IMPORT>> \o L \o <<DOT>>, i)
                    => MatchAt(rw_out,
                               <<KW_IMPORT>> \o rw_prefix \o <<DOT>> \o L \o <<DOT>>,
                               OutPos(rw_text, L, rw_prefix, i))
               /\ \A M \in Names :
                    (IsProperPrefix(L, M) /\ NamedAt(rw_text, i, KW_IMPORT, M))
                    => NamedAt(rw_out, OutPos(rw_text, L, rw_prefix, i), KW_IMPORT, M)

\* "import a.b" rewritten with {a -> p.a}
C4_Witness ==
    /\ rw_pc = "done"
    /\ rw_libs = {<<"a">>}
    /\ rw_prefix = <<"p">>
    /\ rw_text = <<KW_IMPORT, "a", DOT, "b">>
    /\ rw_out = <<KW_IMPORT, "p", DOT, "a", DOT, "b">>

C6_OrderIndependent ==
    rw_pc = "done" =>
        \A o \in Orders(rw_libs) :
            FixAllImports(rw_text, o, rw_prefix) = rw_out

\* C6 amended: the result is the same for every order of the libraries
\* when the prefix is not itself one of the library names.
C6_OrderIndependentFreshPrefix ==
    (rw_pc = "done" /\ rw_prefix \notin rw_libs) =>
        \A o \in Orders(rw_libs) :
            FixAllImports(rw_text, o, rw_prefix) = rw_out

\* two libraries, both named in the text, processed in some order
C6_Witness ==
    /\ rw_pc = "done"
    /\ rw_libs = {<<"a">>, <<"b">>}
    /\ rw_prefix = <<"p">>
    /\ rw_order = <<(<<"b">>), (<<"a">>)>>
    /\ rw_text = <<KW_IMPORT, "a", DOT, "b">>
    /\ rw_out = <<KW_IMPORT, "p", DOT, "a", DOT, "b">>

-----------------------------------------------------------------------------
(* Properties of the namespacer *)

\* directory `dir` of the archive directly holds an entry ending in ".py"
\* (a source entry, or the package marker __init__.py)
DirHoldsSource(zip, dir) ==
    \E e \in Range(zip) :
        /\ Len(e.name) = Len(dir) + 1
        /\ SubSeq(e.name, 1, Len(dir)) = dir
        /\ EndsWithPy(e.name)

\* C7: in an archive the namespacer produced with package markers enabled,
\* every directory from the prefix directory down to the parent directory
\* of a source entry directly holds a package marker or a source entry.
C7_NoGapDirectory ==
    (ns_pc = "done" /\ ~ns_err /\ ns_args.add_init) =>
        \A e \in Range(ns_out.entries) :
            EndsWithPy(e.name) =>
                \A k \in 1..(Len(e.name) - 1) :
                    DirHoldsSource(ns_out.entries, SubSeq(e.name, 1, k))

\* pkg/sub/deep.py namespaced from an archive without pkg/__init__.py: the
\* markers of the prefix directory and of pkg were written
C7_Witness ==
    /\ ns_pc = "done" /\ ~ns_err /\ ns_args.add_init
    /\ << <<"pkg">>, InitPy >> \notin Range(NameList(ns_in))
    /\ <<ns_prefix, <<"pkg">>, <<"sub">>, <<"deep", PY>> >>
           \in Range(NameList(ns_out.entries))
    /\ <<ns_prefix, <<"pkg">>, InitPy>> \in Range(NameList(ns_out.entries))
    /\ <<ns_prefix, InitPy>> \in Range(NameList(ns_out.entries))

\* C8: every entry of the namespacer's output, the synthetic package
\* markers included, has the resolved prefix (the caller's, or the
\* generated codebase_<timestamp>) as its first path segment.
C8_AllUnderPrefix ==
    ns_pc = "done" =>
        \A e \in Range(ns_out.entries) :
            /\ Len(e.name) >= 2
            /\ e.name[1] = (IF ns_args.prefix # <<>> THEN ns_args.prefix
                            ELSE <<"codebase_", Strftime(ns_now)>>)

\* a generated prefix, with a marker written under it
C8_Witness ==
    /\ ns_pc = "done" /\ ~ns_err
    /\ ns_args.prefix = <<>>
    /\ ns_now = TicksPerSecond + 1
    /\ << <<"codebase_", "1">>, InitPy >> \in Range(NameList(ns_out.entries))
    /\ Len(ns_out.entries) > Len(ns_in)

\* C9: when a source entry does not decode as text the operation aborts
\* with an error and no output archive, partial or complete, exists at the
\* output path afterwards.  (With save_non_code only the entries ending in
\* ".py" are decoded, so the error is a source entry's.)
C9_NoOutputAfterDecodeError ==
    (/\ ns_pc = "done"
     /\ ns_args.save_non_code
     /\ \E e \in Range(ns_in) : EndsWithPy(e.name) /\ DecodeRaises(e.data))
    => (ns_err /\ ~ns_out.exists)

-----------------------------------------------------------------------------
(* Properties of the archive builder and of the loaders *)

\* the list library_names.json of an archive holds
ManifestOf(zip) == ZipRead(zip, ManifestPath).libs

\* C10: when create_zip is called without library_names, the manifest it
\* writes is the set the library discoverer returns for the staging root:
\* the stems of the top-level source files and the names of the top-level
\* directories that hold a source file at any depth.
C10_ManifestIsDiscovered ==
    (b_pc = "done" /\ ~b_args.library_names.given) =>
        Range(ManifestOf(disk[OutZip].entries))
            = GetPythonLibraries(Stage(EmptyTree, b_inputs, b_args.ignore))

\* C2: on every archive create_zip produced, constructing a Codebase
\* succeeds and leaves the archive path first on sys.path.
C2_CodebaseMountsBuiltArchive ==
    (b_pc = "done" /\ last.op = "Codebase" /\ last.zip = OutZip) =>
        /\ ~last.raised
        /\ sys_path # <<>>
        /\ Head(sys_path) = OutZip

\* handle h is a UniqueCodebase constructed with make_unique
MadeUnique(h) ==
    /\ handles[h].state \in {"live", "closed"}
    /\ handles[h].kind = "UniqueCodebase"
    /\ handles[h].zip_name = TmpName(h)

\* C1: any two namespaced loaders constructed with make_unique record
\* different prefixes, so that the modules import_module(name) returns
\* through the two handles are distinct.
C1_DistinctPrefixes ==
    \A h1, h2 \in Handles :
        (h1 # h2 /\ MadeUnique(h1) /\ MadeUnique(h2)) =>
            /\ handles[h1].library_name # handles[h2].library_name
            /\ (/\ handles[h1].module # NoModule
                /\ handles[h2].module # NoModule)
               => handles[h1].module # handles[h2].module

\* C3: for either loader, constructing it and then calling close(), with
\* no other operation on sys.path in between, leaves sys.path equal, as an
\* ordered list, to what it was before the construction.
C3_MountCloseRestoresPath ==
    (last.op = "close" /\ ~last.raised /\ last.alone) =>
        sys_path = last.before

\* a Codebase mounted on lib.zip and closed while sys.path already held
\* lib.zip
C3_Witness ==
    /\ last.op = "close" /\ ~last.raised /\ last.alone
    /\ last.zip = LibZip
    /\ handles[last.h].kind = "Codebase"
    /\ sys_path = <<LibZip, SitePath>>

\* C13: whenever a Codebase is constructed while another Codebase is live,
\* a warning is emitted, no error is raised and the new archive path is
\* inserted at the front of sys.path.
C13_SecondLoaderWarns ==
    (/\ last.op = "Codebase"
     /\ \E k \in Handles \ {last.h} :
           handles[k].state = "live" /\ handles[k].kind = "Codebase") =>
        /\ last.warned
        /\ ~last.raised
        /\ sys_path # <<>>
        /\ Head(sys_path) = last.zip

\* C15: every loader operation that changes sys.path (the insertion of
\* either constructor, the removal of either close) has called
\* importlib.invalidate_caches() after the change when it returns.
C15_MutationInvalidatesCache ==
    (last.op \in {"Codebase", "UniqueCodebase", "close"} /\ ~last.raised) =>
        ~cache_stale

\* the number of times sys.path holds path z
Mounts(z) == Cardinality({i \in 1..Len(sys_path) : sys_path[i] = z})

\* the live handles mounted on path z
LiveOn(z) ==
    {h \in Handles : handles[h].state = "live" /\ handles[h].zip_name = z}

\* C17: after any constructions and close() calls over several handles
\* (every construction having succeeded; handles may share an archive path
\* and close() may be repeated), sys.path holds each archive path that was
\* not on it at the start once per live handle mounted on it, and the
\* entries it had at the start are all there in their order.
C17_PathMatchesLiveHandles ==
    (\A h \in Handles : handles[h].state # "failed") =>
        /\ \A z \in Paths \ {SitePath, LibZip} :
               Mounts(z) = Cardinality(LiveOn(z))
        /\ Mounts(SitePath) = 1

-----------------------------------------------------------------------------
(* The namespaced loader and from_import *)

MaxMembers == 2

Members == {"x", "y", "mod", "zz"}

ImZips == {LibZip, NsZip}

ImInit ==
    /\ disk = [p \in Paths |->
                 CASE p = LibZip -> Present(LibArchive)
                   [] p = NsZip -> Present(NsArchive)
                   [] OTHER -> Absent]
    /\ sys_path = <<SitePath>>
    /\ sys_modules = {}
    /\ cache_stale = FALSE
    /\ ran_already = FALSE
    /\ clock = 0
    /\ handles = [h \in Handles |-> Unused]
    /\ last = NoOp
    /\ RwIdle /\ NsIdle /\ BIdle /\ CpIdle /\ LcIdle

ImUniqueCodebase ==
    /\ \E h \in Handles, z \in ImZips :
           UniqueCodebaseInit(h, z, FALSE, z = LibZip)
    /\ UNCHANGED <<rw_vars, ns_vars, b_vars, cp_vars, lc_vars>>

ImFromImport ==
    /\ \E h \in Handles, things \in SeqsUpTo(Members, MaxMembers),
          is_str, as_given \in BOOLEAN :
           FromImport(h, << <<"pkg">> >>, things, is_str, as_given)
    /\ UNCHANGED <<rw_vars, ns_vars, b_vars, cp_vars, lc_vars>>

ImClose ==
    /\ \E h \in Handles : Close(h)
    /\ UNCHANGED <<rw_vars, ns_vars, b_vars, cp_vars, lc_vars>>

ImNext == ImUniqueCodebase \/ ImFromImport \/ ImClose

SpecImport == ImInit /\ [][ImNext]_vars

\* C14: from_import(name, members) returns the single value when exactly
\* one member is requested (a string or a one-element list), and otherwise
\* a list with one value per requested member, in request order, whose
\* length is the number of requested members.
C14_ReturnsOnePerMember ==
    (last.op = "from_import" /\ ~last.raised) =>
        LET expected == Gather(handles[last.h].library_name, last.name,
                               last.things, sys_modules).ret
        IN  IF Len(last.things) = 1
            THEN last.ret = [kind |-> "value", items |-> expected]
            ELSE /\ last.ret.kind = "list"
                 /\ Len(last.ret.items) = Len(last.things)
                 /\ last.ret.items = expected

-----------------------------------------------------------------------------
(* Properties of checkpoint *)

\* C11: in every archive checkpoint writes, whatever the main folder, the
\* extra libraries, the extra search roots and the filters, each library
\* name of the manifest is the first path segment of an entry of the
\* archive (the segment of a single-file library being its name with .py).
C11_ManifestNamesHaveEntries ==
    (cp_pc = "done" /\ ~cp_err) =>
        \A n \in Range(ManifestOf(disk[OutZip].entries)) :
            \E e \in Range(disk[OutZip].entries) :
                e.name[1] = n \/ e.name[1] = n \o <<PY>>

-----------------------------------------------------------------------------
(* Properties of change_launcher *)

\* the content the call designates for the entry point
DesignatedMain ==
    CASE lc_args.external_path.given -> ExternalData(lc_args.external_path.value)
      [] lc_args.internal_path.given -> ZipRead(lc_before, lc_args.internal_path.value)
      [] OTHER -> RunModuleStub(lc_args.module_name.value)

\* the call was given exactly one argument, and it names something that
\* exists: a file outside the archive, or a member of the archive
LauncherInputExists ==
    /\ lc_pc = "done"
    /\ ExactlyOneGiven(lc_args)
    /\ lc_args.external_path.given => ExternalExists(lc_args.external_path.value)
    /\ lc_args.internal_path.given =>
           lc_args.internal_path.value \in Range(NameList(lc_before))

\* C12: after change_launcher with exactly one of external file, internal
\* member (any member of the archive) or module name, on an archive with or
\* without an entry point, the archive holds exactly one __main__.py, its
\* content is the designated one, and every other entry is still there
\* with its content.
C12_OneDesignatedEntryPoint ==
    LauncherInputExists =>
        LET out == disk[OutZip].entries
        IN  /\ Cardinality({i \in 1..Len(out) : out[i].name = <<MainPy>>}) = 1
            /\ ZipRead(out, <<MainPy>>) = DesignatedMain
            /\ SelectSeq(out, LAMBDA e : e.name # <<MainPy>>)
                   = SelectSeq(lc_before, LAMBDA e : e.name # <<MainPy>>)

\* C16: when change_launcher fails after its argument check has passed, the
\* archive at zip_file has exactly the entries and contents it had before
\* the call, its previous __main__.py included.
C16_FailureLeavesArchive ==
    (lc_pc = "done" /\ lc_err /\ ExactlyOneGiven(lc_args)) =>
        disk[OutZip].entries = lc_before

=============================================================================
